---- MODULE Spec2Model ----
(***************************************************************************)
(* The pocket money ledger: money.py (CLI with starting balance, dates and *)
(* monthly summary), simple.py (CLI, timestamps, no starting balance) and  *)
(* pp.py (Streamlit form, one script rerun per user interaction).          *)
(*                                                                         *)
(* Python strings that the code inspects character by character (dates)    *)
(* are sequences of one-character strings; floats are integers (finite     *)
(* amounts whose sums are exact).                                          *)
(***************************************************************************)
EXTENDS Integers, Sequences, FiniteSets, TLC

\* ------------------------------------------------------------------ bounds
\* Longest transaction sequence the model lets a ledger grow to.
MaxTx == 2

\* ------------------------------------------------------- strings and dates
Digits == <<"0", "1", "2", "3", "4", "5", "6", "7", "8", "9">>

IsDigit(c) == \E i \in 1..10 : Digits[i] = c

DigitVal(c) == (CHOOSE i \in 1..10 : Digits[i] = c) - 1

\* Code point of a character, for Python's str comparison.
Ord(c) ==
  IF c = " " THEN 32
  ELSE IF c = "-" THEN 45
  ELSE IF c = ":" THEN 58
  ELSE IF IsDigit(c) THEN 48 + DigitVal(c)
  ELSE 120

\* Python's a < b on str: lexicographic by code point.
RECURSIVE StrLess(_, _)
StrLess(a, b) ==
  IF b = <<>> THEN FALSE
  ELSE IF a = <<>> THEN TRUE
  ELSE IF Ord(Head(a)) # Ord(Head(b)) THEN Ord(Head(a)) < Ord(Head(b))
  ELSE StrLess(Tail(a), Tail(b))

StrLeq(a, b) == a = b \/ StrLess(a, b)

\* str.startswith
StartsWith(s, p) == Len(p) <= Len(s) /\ SubSeq(s, 1, Len(p)) = p

\* str.strip() on the characters the model's inputs use.
RECURSIVE LStrip(_)
LStrip(s) == IF s # <<>> /\ Head(s) = " " THEN LStrip(Tail(s)) ELSE s

RECURSIVE RStrip(_)
RStrip(s) ==
  IF s # <<>> /\ s[Len(s)] = " " THEN RStrip(SubSeq(s, 1, Len(s) - 1)) ELSE s

Strip(s) == RStrip(LStrip(s))

IsLeap(y) == (y % 4 = 0 /\ y % 100 # 0) \/ y % 400 = 0

DaysInMonth(y, m) ==
  IF m = 2 THEN (IF IsLeap(y) THEN 29 ELSE 28)
  ELSE IF m \in {4, 6, 9, 11} THEN 30
  ELSE 31

\* datetime(y, m, d) is a real date (MINYEAR is 1).
IsRealDate(y, m, d) ==
  /\ y >= 1 /\ y <= 9999
  /\ m >= 1 /\ m <= 12
  /\ d >= 1 /\ d <= DaysInMonth(y, m)

NoDate == [ok |-> FALSE, Y |-> 0, M |-> 0, D |-> 0]

\* Length of the %m field at position p: 1[0-2] | 0[1-9] | [1-9], else 0.
MonthFieldLen(s, p) ==
  IF Len(s) >= p + 1 /\ s[p] = "1" /\ s[p + 1] \in {"0", "1", "2"} THEN 2
  ELSE IF Len(s) >= p + 1 /\ s[p] = "0" /\ IsDigit(s[p + 1]) /\ s[p + 1] # "0" THEN 2
  ELSE IF Len(s) >= p /\ IsDigit(s[p]) /\ s[p] # "0" THEN 1
  ELSE 0

\* Length of the %d field at position p:
\* 3[0-1] | [1-2]\d | 0[1-9] | [1-9] | " "[1-9], else 0.
DayFieldLen(s, p) ==
  IF Len(s) >= p + 1 /\ s[p] = "3" /\ s[p + 1] \in {"0", "1"} THEN 2
  ELSE IF Len(s) >= p + 1 /\ s[p] \in {"1", "2"} /\ IsDigit(s[p + 1]) THEN 2
  ELSE IF Len(s) >= p + 1 /\ s[p] = "0" /\ IsDigit(s[p + 1]) /\ s[p + 1] # "0" THEN 2
  ELSE IF Len(s) >= p /\ IsDigit(s[p]) /\ s[p] # "0" THEN 1
  ELSE IF Len(s) >= p + 1 /\ s[p] = " " /\ IsDigit(s[p + 1]) /\ s[p + 1] # "0" THEN 2
  ELSE 0

\* Value of a one- or two-character numeric field (a leading blank counts 0).
FieldVal(s, p, n) ==
  IF n = 1 THEN DigitVal(s[p])
  ELSE (IF s[p] = " " THEN 0 ELSE 10 * DigitVal(s[p])) + DigitVal(s[p + 1])

\* datetime.strptime(s, "%Y-%m-%d"): ok is FALSE where Python raises ValueError.
strptime(s) ==
  IF ~(Len(s) >= 5 /\ (\A i \in 1..4 : IsDigit(s[i])) /\ s[5] = "-") THEN NoDate
  ELSE
    LET y  == 1000 * DigitVal(s[1]) + 100 * DigitVal(s[2])
              + 10 * DigitVal(s[3]) + DigitVal(s[4])
        ml == MonthFieldLen(s, 6)
    IN IF ml = 0 \/ ~(Len(s) >= 6 + ml /\ s[6 + ml] = "-") THEN NoDate
       ELSE
         LET dl == DayFieldLen(s, 7 + ml)
         IN IF dl = 0 \/ Len(s) # 6 + ml + dl THEN NoDate
            ELSE
              LET m == FieldVal(s, 6, ml)
                  d == FieldVal(s, 7 + ml, dl)
              IN IF IsRealDate(y, m, d)
                 THEN [ok |-> TRUE, Y |-> y, M |-> m, D |-> d]
                 ELSE NoDate

\* "%02d" / "%04d"
Pad2(n) == <<Digits[((n \div 10) % 10) + 1], Digits[(n % 10) + 1]>>

Pad4(n) ==
  <<Digits[((n \div 1000) % 10) + 1], Digits[((n \div 100) % 10) + 1]>> \o Pad2(n % 100)

\* dt.strftime("%Y-%m-%d")
strftime_date(dt) == Pad4(dt.Y) \o <<"-">> \o Pad2(dt.M) \o <<"-">> \o Pad2(dt.D)

\* dt.strftime("%Y-%m-%d %H:%M")
strftime_minute(dt) == strftime_date(dt) \o <<" ">> \o Pad2(dt.h) \o <<":">> \o Pad2(dt.m)

\* dt.strftime("%Y") and dt.strftime("%m")
strftime_Y(dt) == Pad4(dt.Y)

strftime_m(dt) == Pad2(dt.M)

\* --------------------------------------------------------------- inputs
\* What the user can type and what the wall clock can read.  Dates as typed:
\* zero-padded, not padded, surrounded by blanks, and two that are no date.
D_Jan05 == <<"2", "0", "2", "4", "-", "0", "1", "-", "0", "5">>

D_Jan5u == <<"2", "0", "2", "4", "-", "1", "-", "5">>

D_Feb01 == <<"2", "0", "2", "4", "-", "0", "2", "-", "0", "1">>

D_Feb01sp == <<" ">> \o D_Feb01 \o <<" ">>

D_Feb30 == <<"2", "0", "2", "4", "-", "0", "2", "-", "3", "0">>

D_ShortYear == <<"2", "4", "-", "0", "1", "-", "0", "5">>

DateInputs == {<<>>, D_Jan05, D_Jan5u, D_Feb01sp, D_Feb30, D_ShortYear}

\* datetime.now(): local wall-clock readings, in no particular order.
Clock ==
  { [Y |-> 2024, M |-> 1, D |-> 5, h |-> 9, m |-> 30],
    [Y |-> 2024, M |-> 2, D |-> 1, h |-> 9, m |-> 5] }

\* datetime.today() while money.py runs.
Today == {[Y |-> 2024, M |-> 2, D |-> 1, h |-> 9, m |-> 5]}

\* Numbers typed at a number prompt.
AmountInputs == {-5, 0, 20, 50}

BalanceInputs == {0, 100}

\* Free text typed for source / category / note ("" is an empty line).
TextInputs == {""}

YearInputs == {<<>>, <<"2", "4">>}

MonthInputs == {<<>>, <<"1">>, <<"1", "3">>}

\* ------------------------------------------------------------------- JSON
\* A JSON document as json.dump writes it and json.load reads it.
JNum(n) == [kind |-> "number", v |-> n]

JStr(s) == [kind |-> "string", v |-> s]

JArr(items) == [kind |-> "array", items |-> items]

JObj(members) == [kind |-> "object", members |-> members]

LedgerKeys == <<"starting_balance", "transactions">>

TxKeys == <<"date", "type", "amount", "category", "note">>

\* dict.get(key, default)
Get(d, key, default) == IF key \in DOMAIN d THEN d[key] ELSE default

\* json.dump of a transaction that loses the note.
json_dump_tx_nonote(t) ==
  LET ks == SelectSeq(TxKeys, LAMBDA k : k \in DOMAIN t /\ k # "note")
  IN JObj([i \in 1..Len(ks) |->
            <<ks[i], IF ks[i] = "amount" THEN JNum(t[ks[i]]) ELSE JStr(t[ks[i]])>>])

\* json.dump of one transaction dict: its keys in insertion order.
json_dump_tx(t) ==
  LET ks == SelectSeq(TxKeys, LAMBDA k : k \in DOMAIN t)
  IN JObj([i \in 1..Len(ks) |->
            <<ks[i], IF ks[i] = "amount" THEN JNum(t[ks[i]]) ELSE JStr(t[ks[i]])>>])

\* json.dump(data, f, indent=4) of a ledger dict.
json_dump(d) ==
  LET ks == SelectSeq(LedgerKeys, LAMBDA k : k \in DOMAIN d)
  IN JObj([i \in 1..Len(ks) |->
            <<ks[i],
              IF ks[i] = "starting_balance" THEN JNum(d[ks[i]])
              ELSE JArr([j \in 1..Len(d[ks[i]]) |-> json_dump_tx(d[ks[i]][j])])>>])

\* The value of key k in a JSON object: the last member wins.
Member(members, k) ==
  members[CHOOSE i \in 1..Len(members) :
            /\ members[i][1] = k
            /\ \A j \in (i + 1)..Len(members) : members[j][1] # k][2]

\* json.load: objects to dicts, arrays to lists, numbers and strings as they are.
RECURSIVE json_load(_)
json_load(doc) ==
  IF doc.kind = "object"
  THEN [k \in {doc.members[i][1] : i \in 1..Len(doc.members)} |->
          json_load(Member(doc.members, k))]
  ELSE IF doc.kind = "array"
  THEN [i \in 1..Len(doc.items) |-> json_load(doc.items[i])]
  ELSE doc.v

\* ------------------------------------------------------------- the file
NoDoc == [kind |-> "none"]

Absent == [state |-> "absent", doc |-> NoDoc]

\* The file exists and open() raises OSError (no permission, a directory).
Unreadable == [state |-> "unreadable", doc |-> NoDoc]

\* Bytes that are not UTF-8: f.read() raises UnicodeDecodeError.
NotUtf8 == [state |-> "text", doc |-> [kind |-> "notutf8"]]

\* Text that is not JSON: json.load raises JSONDecodeError.
NotJson == [state |-> "text", doc |-> [kind |-> "invalid"]]

Text(doc) == [state |-> "text", doc |-> doc]

\* In-memory Python objects carry their type: a dict and a list are told apart.
PyDict(d) == [pytype |-> "dict", val |-> d]

PyOther(doc) == [pytype |-> doc.kind, val |-> <<>>]

Unset == [pytype |-> "unset", val |-> <<>>]

\* ------------------------------------------------------------------ state
VARIABLES
  prog,           \* which of the three programs runs: "money", "simple", "pp"
  pc,             \* "start" (before main loads), "menu", "crashed", "exited"
  data,           \* the CLI programs' in-memory ledger (main's local `data`)
  file,           \* the CLI programs' data file on disk
  out,            \* what the last operation printed / did
  session_state,  \* pp.py: st.session_state (a dict, empty before the first run)
  uploaded_file   \* pp.py: the file held by the sidebar uploader, or NoFile

vars == <<prog, pc, data, file, out, session_state, uploaded_file>>

\* msgs holds the messages printed, without their emoji and figures; saved
\* tells whether save_data was called; val is what the operation showed.
Out(op, msgs, saved, val) == [op |-> op, msgs |-> msgs, saved |-> saved, val |-> val]

\* Every result is a record: what an operation shows differs by operation.
Nothing == [nothing |-> TRUE]

NoOut == Out("", {}, FALSE, Nothing)

\* ---------------------------------------------------- prompt loops (CLI)
\* input_float and input_date ask again until a line is accepted; a rejected
\* line prints a message and changes nothing, so an operation is modelled
\* from the line its loop accepts.

\* input_float: float() of the accepted line.
input_float(line) == line

\* input_date's test of one line: empty after strip (today), or strptime parses it.
DateAccepted(line) == Strip(line) = <<>> \/ strptime(Strip(line)).ok

\* The lines input_date's loop ends on.
AcceptedDateInputs == {line \in DateInputs : DateAccepted(line)}

\* input_date's result for an accepted line: today's date, or the line as typed.
input_date(line, today) ==
  LET value == Strip(line)
  IN IF value = <<>> THEN strftime_date(today) ELSE value

\* --------------------------------------------------------------- money.py
Fresh == [starting_balance |-> 0, transactions |-> <<>>]

Loaded(d, msgs) == [raised |-> "", data |-> d, msgs |-> msgs]

Raised(exc) == [raised |-> exc, data |-> Unset, msgs |-> {}]

\* load_data(): the ledger main() starts with, or the exception that escapes.
\* A document that is no object (a list, a number, a string, null) raises
\* TypeError at `"starting_balance" not in data` or at the item assignment
\* after it (the one list that holds both key names is not among the inputs).
load_data(f) ==
  IF f.state = "absent" THEN Loaded(PyDict(Fresh), {})
  ELSE IF f.state = "unreadable" \/ f.doc.kind = "invalid"
  THEN Loaded(PyDict(Fresh), {"Data file is corrupted or unreadable. Starting fresh."})
  ELSE IF f.doc.kind = "notutf8" THEN Raised("UnicodeDecodeError")
  ELSE IF f.doc.kind = "object"
  THEN LET d  == json_load(f.doc)
           d1 == IF "starting_balance" \notin DOMAIN d
                 THEN d @@ ("starting_balance" :> 0) ELSE d
           d2 == IF "transactions" \notin DOMAIN d1
                 THEN d1 @@ ("transactions" :> <<>>) ELSE d1
       IN Loaded(PyDict(d2), {})
  ELSE Raised("TypeError")

\* A save that writes the newest transaction only.
save_data_last(d) ==
  Text(json_dump(IF "transactions" \in DOMAIN d /\ d.transactions # <<>>
                 THEN [d EXCEPT !.transactions = <<d.transactions[Len(d.transactions)]>>]
                 ELSE d))

\* save_data(data): the file after json.dump.
save_data(d) == Text(json_dump(d))

RECURSIVE BalanceLoop(_, _)
BalanceLoop(balance, txs) ==
  IF txs = <<>> THEN balance
  ELSE LET t      == Head(txs)
           amount == Get(t, "amount", 0)
       IN BalanceLoop(IF Get(t, "type", "None") = "IN" THEN balance + amount
                      ELSE IF Get(t, "type", "None") = "OUT" THEN balance - amount
                      ELSE balance,
                      Tail(txs))

\* calculate_balance with the starting balance forgotten.
calculate_balance_nostart(d) == BalanceLoop(0, Get(d, "transactions", <<>>))

calculate_balance(d) ==
  BalanceLoop(Get(d, "starting_balance", 0), Get(d, "transactions", <<>>))

DateKey(t) == Get(t, "date", <<>>)

\* A sort that puts x before the keys equal to its own: ties come out reversed.
RECURSIVE InsertSorted_ties(_, _)
InsertSorted_ties(x, s) ==
  IF s = <<>> THEN <<x>>
  ELSE IF StrLeq(DateKey(x), DateKey(Head(s))) THEN <<x>> \o s
  ELSE <<Head(s)>> \o InsertSorted_ties(x, Tail(s))

\* Where sorted() puts x among already sorted s: after every key <= its own.
RECURSIVE InsertSorted(_, _)
InsertSorted(x, s) ==
  IF s = <<>> THEN <<x>>
  ELSE IF StrLess(DateKey(x), DateKey(Head(s))) THEN <<x>> \o s
  ELSE <<Head(s)>> \o InsertSorted(x, Tail(s))

RECURSIVE SortLoop(_, _)
SortLoop(done, rest) ==
  IF rest = <<>> THEN done ELSE SortLoop(InsertSorted(Head(rest), done), Tail(rest))

\* sorted(transactions, key=lambda x: x.get("date", "")): stable.
sorted_by_date(txs) == SortLoop(<<>>, txs)

\* The amount test written as amount < 0: a zero amount passes.
invalid_amount_strict(amount) == amount < 0

\* if amount <= 0: print("Amount must be positive."); return
invalid_amount(amount) == amount <= 0

\* insert(0, transaction) in place of append.
append_transaction_front(d, t) == [d EXCEPT !.transactions = <<t>> \o @]

\* data["transactions"].append(transaction)
append_transaction(d, t) == [d EXCEPT !.transactions = Append(@, t)]

income_tx(amount, source, date, note) ==
  [date |-> date, type |-> "IN", amount |-> amount,
   category |-> IF source # "" THEN source ELSE "Pocket Money", note |-> note]

expense_tx(amount, category, date, note) ==
  [date |-> date, type |-> "OUT", amount |-> amount,
   category |-> IF category = "" THEN "Other" ELSE category, note |-> note]

\* main(): data = load_data()
main_load ==
  /\ prog = "money" /\ pc = "start"
  /\ LET r == load_data(file)
     IN /\ data' = r.data
        /\ pc' = IF r.raised = "" THEN "menu" ELSE "crashed"
        /\ out' = Out("load_data",
                      r.msgs \cup (IF r.raised = "" THEN {} ELSE {r.raised}), FALSE, Nothing)
  /\ UNCHANGED <<prog, file, session_state, uploaded_file>>

set_starting_balance ==
  /\ prog = "money" /\ pc = "menu"
  /\ \E line \in BalanceInputs :
       LET new_balance == input_float(line)
           d           == [data.val EXCEPT !.starting_balance = new_balance]
       IN /\ data' = PyDict(d)
          /\ file' = save_data(d)
          /\ out' = Out("set_starting_balance",
                        {"Starting balance updated"}, TRUE,
                        [starting_balance |-> new_balance])
  /\ UNCHANGED <<prog, pc, session_state, uploaded_file>>

add_income ==
  /\ prog = "money" /\ pc = "menu"
  /\ \E line \in AmountInputs :
       LET amount == input_float(line)
       IN IF invalid_amount(amount)
          THEN /\ out' = Out("add_income",
                             {"Amount must be positive."}, FALSE, [amount |-> amount])
               /\ UNCHANGED <<data, file>>
          ELSE /\ Len(data.val.transactions) < MaxTx
               /\ \E source \in TextInputs, dline \in AcceptedDateInputs,
                     today \in Today, note \in TextInputs :
                    LET t == income_tx(amount, source, input_date(dline, today), note)
                        d == append_transaction(data.val, t)
                    IN /\ data' = PyDict(d)
                       /\ file' = save_data(d)
                       /\ out' = Out("add_income", {"Income added."}, TRUE, [amount |-> amount])
  /\ UNCHANGED <<prog, pc, session_state, uploaded_file>>

add_expense ==
  /\ prog = "money" /\ pc = "menu"
  /\ \E line \in AmountInputs :
       LET amount == input_float(line)
       IN IF invalid_amount(amount)
          THEN /\ out' = Out("add_expense",
                             {"Amount must be positive."}, FALSE, [amount |-> amount])
               /\ UNCHANGED <<data, file>>
          ELSE /\ Len(data.val.transactions) < MaxTx
               /\ \E category \in TextInputs, dline \in AcceptedDateInputs,
                     today \in Today, note \in TextInputs :
                    LET t == expense_tx(amount, category, input_date(dline, today), note)
                        d == append_transaction(data.val, t)
                    IN /\ data' = PyDict(d)
                       /\ file' = save_data(d)
                       /\ out' = Out("add_expense", {"Expense added."}, TRUE, [amount |-> amount])
  /\ UNCHANGED <<prog, pc, session_state, uploaded_file>>

show_balance ==
  /\ prog = "money" /\ pc = "menu"
  /\ out' = Out("show_balance", {}, FALSE,
                [balance |-> calculate_balance(data.val),
                 starting_balance |-> Get(data.val, "starting_balance", 0),
                 total |-> Len(Get(data.val, "transactions", <<>>))])
  /\ UNCHANGED <<prog, pc, data, file, session_state, uploaded_file>>

list_transactions ==
  /\ prog = "money" /\ pc = "menu"
  /\ LET transactions == Get(data.val, "transactions", <<>>)
     IN out' = IF transactions = <<>>
               THEN Out("list_transactions", {"No transactions yet."}, FALSE,
                        [shown |-> <<>>])
               ELSE Out("list_transactions", {}, FALSE,
                        [shown |-> sorted_by_date(transactions)])
  /\ UNCHANGED <<prog, pc, data, file, session_state, uploaded_file>>

\* ym_prefix: f"{year}-{month:>02}" if len(month) == 2 else f"{year}-0{month}"
ym_prefix(year, month) ==
  IF Len(month) = 2 THEN year \o <<"-">> \o month ELSE year \o <<"-", "0">> \o month

\* The loop of monthly_summary over data["transactions"].
RECURSIVE SummaryLoop(_, _, _)
SummaryLoop(acc, prefix, txs) ==
  IF txs = <<>> THEN acc
  ELSE LET t      == Head(txs)
           amount == Get(t, "amount", 0)
       IN IF ~StartsWith(Get(t, "date", <<>>), prefix)
          THEN SummaryLoop(acc, prefix, Tail(txs))
          ELSE SummaryLoop(
                 [income_total  |-> acc.income_total
                                    + (IF Get(t, "type", "None") = "IN" THEN amount ELSE 0),
                  expense_total |-> acc.expense_total
                                    + (IF Get(t, "type", "None") = "OUT" THEN amount ELSE 0),
                  counted       |-> Append(acc.counted, t)],
                 prefix, Tail(txs))

monthly_totals(d, year, month) ==
  SummaryLoop([income_total |-> 0, expense_total |-> 0, counted |-> <<>>],
              ym_prefix(year, month), Get(d, "transactions", <<>>))

monthly_summary ==
  /\ prog = "money" /\ pc = "menu"
  /\ \E year_in \in YearInputs, month_in \in MonthInputs, today \in Today :
       LET year  == IF year_in = <<>> THEN strftime_Y(today) ELSE year_in
           month == IF month_in = <<>> THEN strftime_m(today) ELSE month_in
       IN IF ~strptime(year \o <<"-">> \o month \o <<"-", "0", "1">>).ok
          THEN out' = Out("monthly_summary", {"Invalid year/month."}, FALSE, Nothing)
          ELSE LET r == monthly_totals(data.val, year, month)
               IN out' = Out("monthly_summary", {}, FALSE,
                             [year          |-> year,
                              month         |-> month,
                              income_total  |-> r.income_total,
                              expense_total |-> r.expense_total,
                              net           |-> r.income_total - r.expense_total,
                              count         |-> Len(r.counted),
                              details       |-> sorted_by_date(r.counted)])
  /\ UNCHANGED <<prog, pc, data, file, session_state, uploaded_file>>

\* main(): choice "0" (any line that is no menu entry prints a message and
\* changes nothing).
main_exit ==
  /\ prog = "money" /\ pc = "menu"
  /\ pc' = "exited"
  /\ out' = Out("exit", {"Goodbye!"}, FALSE, Nothing)
  /\ UNCHANGED <<prog, data, file, session_state, uploaded_file>>

MoneyNext ==
  \/ main_load
  \/ set_starting_balance
  \/ add_income
  \/ add_expense
  \/ show_balance
  \/ list_transactions
  \/ monthly_summary
  \/ main_exit

\* A transaction as money.py writes it, for the files found at start.
T_Gift == [date |-> D_Jan05, type |-> "IN", amount |-> 50, category |-> "Gift", note |-> ""]

MoneyFiles ==
  { Absent, Unreadable, NotUtf8, NotJson,
    Text(JArr(<<>>)), Text(JNum(7)), Text(JObj(<<>>)),
    Text(JObj(<<<<"starting_balance", JNum(100)>>>>)),
    Text(JObj(<<<<"transactions", JArr(<<json_dump_tx(T_Gift)>>)>>>>)),
    save_data([starting_balance |-> 100, transactions |-> <<T_Gift>>]) }

\* -------------------------------------------------------------- simple.py
SimpleFresh == [transactions |-> <<>>]

\* load_data(): whatever json.load returns, of any type.
simple_load_data(f) ==
  IF f.state = "absent" THEN Loaded(PyDict(SimpleFresh), {})
  ELSE IF f.state = "unreadable" \/ f.doc.kind = "invalid"
  THEN Loaded(PyDict(SimpleFresh), {"Data file corrupted. Starting fresh."})
  ELSE IF f.doc.kind = "notutf8" THEN Raised("UnicodeDecodeError")
  ELSE IF f.doc.kind = "object" THEN Loaded(PyDict(json_load(f.doc)), {})
  ELSE Loaded(PyOther(f.doc), {})

\* data["transactions"] raises TypeError on a non-dict, KeyError without the key.
HasTransactions(d) == d.pytype = "dict" /\ "transactions" \in DOMAIN d.val

SubscriptError(d) == IF d.pytype = "dict" THEN "KeyError" ELSE "TypeError"

RECURSIVE CalcLoop(_, _)
CalcLoop(balance, txs) ==
  IF txs = <<>> THEN balance
  ELSE LET amt == Head(txs).amount
       IN CalcLoop(IF Head(txs).type = "IN" THEN balance + amt ELSE balance - amt,
                   Tail(txs))

calc_balance(d) == CalcLoop(0, d.transactions)

simple_tx(type, amount, note, default, now) ==
  [date |-> strftime_minute(now), type |-> type, amount |-> amount,
   note |-> IF note = "" THEN default ELSE note]

\* add_income / add_expense of simple.py share their shape.
simple_add(op, type, default, done) ==
  /\ prog = "simple" /\ pc = "menu"
  /\ \E line \in AmountInputs :
       LET amount == input_float(line)
       IN IF invalid_amount(amount)
          THEN /\ out' = Out(op, {"Amount must be positive."}, FALSE, [amount |-> amount])
               /\ UNCHANGED <<pc, data, file>>
          ELSE IF ~HasTransactions(data)
          THEN /\ pc' = "crashed"
               /\ out' = Out(op, {SubscriptError(data)}, FALSE, [amount |-> amount])
               /\ UNCHANGED <<data, file>>
          ELSE /\ Len(data.val.transactions) < MaxTx
               /\ \E note \in TextInputs, now \in Clock :
                    LET d == append_transaction(data.val,
                                                simple_tx(type, amount, note, default, now))
                    IN /\ data' = PyDict(d)
                       /\ file' = save_data(d)
                       /\ out' = Out(op, {done}, TRUE, [amount |-> amount])
               /\ UNCHANGED pc
  /\ UNCHANGED <<prog, session_state, uploaded_file>>

simple_main_load ==
  /\ prog = "simple" /\ pc = "start"
  /\ LET r == simple_load_data(file)
     IN /\ data' = r.data
        /\ pc' = IF r.raised = "" THEN "menu" ELSE "crashed"
        /\ out' = Out("load_data",
                      r.msgs \cup (IF r.raised = "" THEN {} ELSE {r.raised}), FALSE, Nothing)
  /\ UNCHANGED <<prog, file, session_state, uploaded_file>>

simple_add_income == simple_add("add_income", "IN", "Income", "Income added.")

simple_add_expense == simple_add("add_expense", "OUT", "Expense", "Expense added.")

simple_show_balance ==
  /\ prog = "simple" /\ pc = "menu"
  /\ IF ~HasTransactions(data)
     THEN /\ pc' = "crashed"
          /\ out' = Out("show_balance", {SubscriptError(data)}, FALSE, Nothing)
     ELSE /\ out' = Out("show_balance", {}, FALSE,
                        [balance |-> calc_balance(data.val),
                         total   |-> Len(data.val.transactions)])
          /\ UNCHANGED pc
  /\ UNCHANGED <<prog, data, file, session_state, uploaded_file>>

\* show_history prints the transactions in the order the list holds them.
show_history ==
  /\ prog = "simple" /\ pc = "menu"
  /\ IF ~HasTransactions(data)
     THEN /\ pc' = "crashed"
          /\ out' = Out("show_history", {SubscriptError(data)}, FALSE, Nothing)
     ELSE /\ out' = IF data.val.transactions = <<>>
                    THEN Out("show_history", {"No transactions yet."}, FALSE,
                             [shown |-> <<>>])
                    ELSE Out("show_history", {}, FALSE,
                             [shown |-> data.val.transactions])
          /\ UNCHANGED pc
  /\ UNCHANGED <<prog, data, file, session_state, uploaded_file>>

simple_main_exit ==
  /\ prog = "simple" /\ pc = "menu"
  /\ pc' = "exited"
  /\ out' = Out("exit", {"Exiting."}, FALSE, Nothing)
  /\ UNCHANGED <<prog, data, file, session_state, uploaded_file>>

SimpleNext ==
  \/ simple_main_load
  \/ simple_add_income
  \/ simple_add_expense
  \/ simple_show_balance
  \/ show_history
  \/ simple_main_exit

\* A transaction as simple.py writes it, for the file found at start.
S_Gift ==
  [date |-> strftime_minute([Y |-> 2024, M |-> 1, D |-> 5, h |-> 9, m |-> 30]),
   type |-> "IN", amount |-> 50, note |-> "gift"]

SimpleFiles ==
  { Absent, Unreadable, NotUtf8, NotJson,
    Text(JArr(<<>>)), Text(JObj(<<>>)),
    save_data([transactions |-> <<S_Gift>>]) }

\* ------------------------------------------------------------------ pp.py
Columns == <<"Date", "Type", "Amount", "Category", "Note">>

Range(q) == {q[i] : i \in 1..Len(q)}

\* pd.DataFrame(columns=[...])
EmptyFrame == [columns |-> Columns, rows |-> <<>>]

NoFile == [name |-> "", readable |-> FALSE, columns |-> <<>>, rows |-> <<>>]

R_Saved ==
  [Date |-> D_Jan05, Type |-> "Income (+)", Amount |-> 50, Category |-> "gift", Note |-> ""]

\* CSV files the user can pick: a saved export, one with one more column, one
\* without the Note column, and an empty file pd.read_csv cannot parse.
F_Saved == [name |-> "saved.csv", readable |-> TRUE, columns |-> Columns, rows |-> <<R_Saved>>]

F_Extra ==
  [name |-> "extra.csv", readable |-> TRUE,
   columns |-> <<"Id">> \o Columns, rows |-> <<R_Saved @@ ("Id" :> 1)>>]

F_NoNote ==
  [name |-> "nonote.csv", readable |-> TRUE,
   columns |-> <<"Date", "Type", "Amount", "Category">>,
   rows |-> <<[Date |-> D_Jan05, Type |-> "Income (+)", Amount |-> 50, Category |-> "gift"]>>]

F_Empty == [name |-> "empty.csv", readable |-> FALSE, columns |-> <<>>, rows |-> <<>>]

UploadFiles == {F_Saved, F_Extra, F_NoNote, F_Empty}

TypeInputs == {"Income (+)", "Expense (-)"}

\* st.number_input("Amount", min_value=1.0): the widget holds no smaller value.
FormAmounts == {n \in AmountInputs : n >= 1}

Step(transactions, msgs) == [transactions |-> transactions, msgs |-> msgs]

required_cols == {"Date", "Type", "Amount", "Category", "Note"}

\* The column test written as "some required column is there".
upload_step_anycol(transactions, f) ==
  IF f = NoFile THEN Step(transactions, {})
  ELSE IF ~f.readable THEN Step(transactions, {"Error reading file"})
  ELSE IF required_cols \cap Range(f.columns) # {}
  THEN Step([columns |-> f.columns, rows |-> f.rows], {"Transactions loaded successfully!"})
  ELSE Step(transactions, {"CSV does not have the required columns."})

\* if uploaded_file is not None: ...  The uploader hands every run the file it
\* holds, readable from its start, so the block runs again on each rerun for
\* as long as the file stays selected.
upload_step(transactions, f) ==
  IF f = NoFile THEN Step(transactions, {})
  ELSE IF ~f.readable THEN Step(transactions, {"Error reading file"})
  ELSE IF required_cols \subseteq Range(f.columns)
  THEN Step([columns |-> f.columns, rows |-> f.rows], {"Transactions loaded successfully!"})
  ELSE Step(transactions, {"CSV does not have the required columns."})

\* if st.sidebar.button("Reset All Data"): ...
reset_step(transactions, clicked) ==
  IF clicked THEN Step(EmptyFrame, {"All data cleared!"}) ELSE Step(transactions, {})

\* pd.concat([frame, pd.DataFrame([new_row])], ignore_index=True)
concat(frame, new_row) ==
  [columns |-> frame.columns
               \o SelectSeq(Columns, LAMBDA c : c \notin Range(frame.columns)),
   rows    |-> Append(frame.rows, new_row)]

NoForm == [submitted |-> FALSE]

Form(date, t_type, amount, category, note) ==
  [submitted |-> TRUE, date |-> date, t_type |-> t_type, amount |-> amount,
   category |-> category, note |-> note]

\* if submitted: ...
form_step(transactions, form) ==
  IF ~form.submitted THEN Step(transactions, {})
  ELSE Step(concat(transactions,
                   [Date     |-> strftime_date(form.date),
                    Type     |-> form.t_type,
                    Amount   |-> form.amount,
                    Category |-> IF form.category = "" THEN "Uncategorized"
                                 ELSE form.category,
                    Note     |-> form.note]),
            {"Entry added!"})

RECURSIVE TypeSum(_, _)
TypeSum(rows, t_type) ==
  IF rows = <<>> THEN 0
  ELSE (IF Head(rows).Type = t_type THEN Head(rows).Amount ELSE 0)
       + TypeSum(Tail(rows), t_type)

\* The summary metrics of one run.
metrics(ss) ==
  LET rows == ss.transactions.rows
  IN [total_income    |-> TypeSum(rows, "Income (+)"),
      total_expense   |-> TypeSum(rows, "Expense (-)"),
      current_balance |-> ss.starting_balance + TypeSum(rows, "Income (+)")
                          - TypeSum(rows, "Expense (-)")]

\* One run of the script, top to bottom: the session state it leaves and the
\* messages it shows.  number is the value the Starting Balance widget returns.
script(ss, changed, number, f, clicked, form) ==
  LET ss1 == IF "transactions" \notin DOMAIN ss
             THEN ss @@ ("transactions" :> EmptyFrame) ELSE ss
      ss2 == IF "starting_balance" \notin DOMAIN ss1
             THEN ss1 @@ ("starting_balance" :> 0) ELSE ss1
      starting_balance == IF changed THEN number ELSE ss2.starting_balance
      up  == upload_step(ss2.transactions, f)
      rs  == reset_step(up.transactions, clicked)
      fm  == form_step(rs.transactions, form)
  IN [session |-> [transactions |-> fm.transactions,
                   starting_balance |-> starting_balance],
      msgs    |-> up.msgs \cup rs.msgs \cup fm.msgs]

\* A rerun: the session state and the page it leaves.
Rerun(op, changed, number, f, clicked, form) ==
  LET r == script(session_state, changed, number, f, clicked, form)
  IN /\ session_state' = r.session
     /\ uploaded_file' = f
     /\ out' = Out(op, r.msgs, FALSE, metrics(r.session))
     /\ pc' = "menu"
     /\ UNCHANGED <<prog, data, file>>

\* The page is opened: the first run of the script.
pp_open ==
  /\ prog = "pp" /\ pc = "start"
  /\ Rerun("open", FALSE, 0, NoFile, FALSE, NoForm)

\* The user edits the Starting Balance number input.
pp_set_balance ==
  /\ prog = "pp" /\ pc = "menu"
  /\ \E number \in BalanceInputs :
       Rerun("starting_balance", TRUE, number, uploaded_file, FALSE, NoForm)

\* The user picks a file in the uploader.
pp_upload ==
  /\ prog = "pp" /\ pc = "menu"
  /\ \E f \in UploadFiles : Rerun("upload", FALSE, 0, f, FALSE, NoForm)

\* The user removes the file from the uploader.
pp_remove_file ==
  /\ prog = "pp" /\ pc = "menu"
  /\ uploaded_file # NoFile
  /\ Rerun("remove_file", FALSE, 0, NoFile, FALSE, NoForm)

\* The user presses Reset All Data.
pp_reset ==
  /\ prog = "pp" /\ pc = "menu"
  /\ Rerun("reset", FALSE, 0, uploaded_file, TRUE, NoForm)

\* The user presses Add Entry.
pp_add_entry ==
  /\ prog = "pp" /\ pc = "menu"
  /\ Len(session_state.transactions.rows) < MaxTx
  /\ \E date \in Clock, t_type \in TypeInputs, amount \in FormAmounts,
        category \in TextInputs, note \in TextInputs :
       Rerun("add_entry", FALSE, 0, uploaded_file, FALSE,
             Form(date, t_type, amount, category, note))

\* The user presses Download as CSV (shown when the table is not empty).
pp_download ==
  /\ prog = "pp" /\ pc = "menu"
  /\ session_state.transactions.rows # <<>>
  /\ Rerun("download", FALSE, 0, uploaded_file, FALSE, NoForm)

PPNext ==
  \/ pp_open
  \/ pp_set_balance
  \/ pp_upload
  \/ pp_remove_file
  \/ pp_reset
  \/ pp_add_entry
  \/ pp_download

\* ---------------------------------------------------------- specification
Init ==
  /\ prog \in {"money", "simple", "pp"}
  /\ pc = "start"
  /\ data = Unset
  /\ file \in (IF prog = "money" THEN MoneyFiles
               ELSE IF prog = "simple" THEN SimpleFiles ELSE {Absent})
  /\ out = NoOut
  /\ session_state = <<>>
  /\ uploaded_file = NoFile

Next == MoneyNext \/ SimpleNext \/ PPNext

Spec == Init /\ [][Next]_vars

\* ------------------------------------------------------------ properties
\* The transaction sequence the running program holds (empty before it has one).
Transactions ==
  IF prog = "pp"
  THEN (IF "transactions" \in DOMAIN session_state
        THEN session_state.transactions.rows ELSE <<>>)
  ELSE (IF data.pytype = "dict" /\ "transactions" \in DOMAIN data.val
        THEN data.val.transactions ELSE <<>>)

\* The starting balance of the CLI ledger (simple.py keeps none: zero).
StartingBalance ==
  IF data.pytype = "dict" /\ "starting_balance" \in DOMAIN data.val
  THEN data.val.starting_balance ELSE 0

IsPrefix(a, b) == Len(a) <= Len(b) /\ SubSeq(b, 1, Len(a)) = a

\* The sum of the amounts at the positions I of txs.
RECURSIVE SumAt(_, _)
SumAt(txs, I) ==
  IF I = {} THEN 0
  ELSE LET i == CHOOSE j \in I : TRUE
       IN txs[i].amount + SumAt(txs, I \ {i})

OfType(txs, type) == {i \in 1..Len(txs) : txs[i].type = type}

AddOps == {"add_income", "add_expense"}

\* C1: the balance shown equals the starting balance plus the amounts of all
\* IN transactions minus the amounts of all OUT transactions of the ledger.
C1_BalanceIsSum ==
  (pc = "menu" /\ out.op = "show_balance" /\ prog \in {"money", "simple"}) =>
    out.val.balance = StartingBalance
                      + SumAt(Transactions, OfType(Transactions, "IN"))
                      - SumAt(Transactions, OfType(Transactions, "OUT"))

\* Start 100, one IN of 50 and one OUT of 20: the balance shown is 130.
C1_Witness ==
  /\ prog = "money" /\ pc = "menu" /\ out.op = "show_balance"
  /\ StartingBalance = 100
  /\ Len(Transactions) = 2
  /\ \E i, j \in 1..2 : /\ Transactions[i].type = "IN" /\ Transactions[i].amount = 50
                        /\ Transactions[j].type = "OUT" /\ Transactions[j].amount = 20
  /\ out.val.balance = 130

\* What a file must be for load_data to read a ledger from it: a JSON object.
IsLedgerFile(f) == f.state = "text" /\ f.doc.kind = "object"

FreshLedger == IF prog = "money" THEN PyDict(Fresh) ELSE PyDict(SimpleFresh)

\* C2: loading never raises, and a file that is absent, unreadable or no ledger
\* object gives a fresh ledger (starting balance 0, no transactions).
C2_LoadNeverRaises ==
  (out.op = "load_data") =>
    /\ pc # "crashed"
    /\ ~IsLedgerFile(file) => data = FreshLedger

\* C3: an append whose amount is <= 0 reports the error and changes neither the
\* ledger in memory nor the file, and saves nothing.
C3_InvalidAmountNoChange ==
  [][(out'.op \in AddOps /\ out'.val.amount <= 0) =>
       /\ "Amount must be positive." \in out'.msgs
       /\ data' = data
       /\ file' = file
       /\ ~out'.saved
       /\ pc' = pc]_vars

\* An expense of 0 was refused on a ledger that holds a transaction on disk.
C3_Witness ==
  /\ out.op = "add_expense" /\ out.val.amount = 0
  /\ "Amount must be positive." \in out.msgs
  /\ Len(Transactions) >= 1
  /\ file.state = "text"

LoadOf(f) == IF prog = "money" THEN load_data(f) ELSE simple_load_data(f)

\* C4: saving the ledger and loading the file gives the ledger back: the same
\* starting balance and the same transactions, field by field, in order.
C4_RoundTrip ==
  (pc = "menu" /\ prog \in {"money", "simple"} /\ data.pytype = "dict") =>
    LoadOf(save_data(data.val)) = Loaded(data, {})

\* A ledger with a set starting balance and two transactions, one of them
\* dated as typed without padding.
C4_Witness ==
  /\ prog = "money" /\ pc = "menu"
  /\ StartingBalance = 100
  /\ Len(Transactions) = 2
  /\ Transactions[1].date = D_Jan5u
  /\ Transactions[2].type = "OUT"
  /\ LoadOf(save_data(data.val)).data = data

\* The calendar month a stored date string falls in.
InMonth(t, y, m) ==
  LET p == strptime(t.date) IN p.ok /\ p.Y = y /\ p.M = m

\* C5: the monthly summary's income, expense, net and count are those of
\* exactly the ledger transactions dated in the asked year and month, and the
\* call leaves the ledger as it was.
C5_MonthlySummary ==
  [][(out'.op = "monthly_summary" /\ out'.msgs = {}) =>
       LET asked == strptime(out'.val.year \o <<"-">> \o out'.val.month \o <<"-", "0", "1">>)
           txs   == Transactions
           I     == {i \in 1..Len(txs) : InMonth(txs[i], asked.Y, asked.M)}
       IN /\ out'.val.income_total = SumAt(txs, I \cap OfType(txs, "IN"))
          /\ out'.val.expense_total = SumAt(txs, I \cap OfType(txs, "OUT"))
          /\ out'.val.net = out'.val.income_total - out'.val.expense_total
          /\ out'.val.count = Cardinality(I)
          /\ data' = data]_vars

\* Zero-padded YYYY-MM-DD naming a real calendar date.
WellFormedDate(s) ==
  /\ Len(s) = 10
  /\ \A i \in {1, 2, 3, 4, 6, 7, 9, 10} : IsDigit(s[i])
  /\ s[5] = "-" /\ s[8] = "-"
  /\ strptime(s).ok

DayNumber(s) == LET p == strptime(s) IN 10000 * p.Y + 100 * p.M + p.D

\* C6: every date money.py stores is a real date in zero-padded YYYY-MM-DD
\* form, so string order is calendar order.
C6_StoredDatesWellFormed ==
  (prog = "money") =>
    /\ \A i \in 1..Len(Transactions) : WellFormedDate(Transactions[i].date)
    /\ \A i, j \in 1..Len(Transactions) :
         StrLess(Transactions[i].date, Transactions[j].date)
           <=> DayNumber(Transactions[i].date) < DayNumber(Transactions[j].date)

\* C7 as claimed: no step of any of the three programs changes or removes a
\* recorded transaction; the sequence only grows at its end.
C7_AppendOnly == [][IsPrefix(Transactions, Transactions')]_vars

\* A CSV the upload handler accepts.
AcceptedFile(f) ==
  /\ f # NoFile /\ f.readable
  /\ \A c \in {"Date", "Type", "Amount", "Category", "Note"} : c \in Range(f.columns)

\* C7 amended: in money.py and simple.py the sequence only grows at its end;
\* in pp.py it does so on every run except one where Reset All Data was
\* pressed (the set is emptied) or where the uploader holds an accepted CSV
\* (the set becomes the file's rows, then a submitted entry).
C7_AppendOnlyButResetAndUpload ==
  [][IF prog = "pp" /\ out'.op = "reset" THEN Transactions' = <<>>
     ELSE IF prog = "pp" /\ AcceptedFile(uploaded_file')
     THEN IsPrefix(uploaded_file'.rows, Transactions')
     ELSE IsPrefix(Transactions, Transactions')]_vars

\* An entry was added in pp.py below an earlier one while the uploader held a
\* file that was refused.
C7_Witness ==
  /\ prog = "pp" /\ out.op = "add_entry"
  /\ uploaded_file = F_NoNote
  /\ Len(Transactions) = 2

\* shown lists every element of txs once, in non-decreasing date order, equal
\* dates in the order txs holds them.
SortedStable(shown, txs) ==
  /\ Len(shown) = Len(txs)
  /\ \E p \in [1..Len(txs) -> 1..Len(txs)] :
       /\ \A i, j \in 1..Len(txs) : i # j => p[i] # p[j]
       /\ \A i \in 1..Len(txs) : shown[i] = txs[p[i]]
       /\ \A i, j \in 1..Len(txs) :
            i < j => /\ StrLeq(shown[i].date, shown[j].date)
                     /\ shown[i].date = shown[j].date => p[i] < p[j]

Listed == out'.op \in {"list_transactions", "show_history"} /\ pc' = "menu"

\* C8 as claimed: listing (money.py and simple.py) shows every transaction once
\* in non-decreasing date order, ties in insertion order, and changes nothing.
C8_ListingSorted ==
  [][Listed => /\ SortedStable(out'.val.shown, Transactions)
               /\ data' = data /\ file' = file]_vars

\* C8 amended: money.py's listing is the stable date sort of the ledger;
\* simple.py's history is the ledger in stored order; neither changes the
\* ledger or the file.
C8_ListingSortedOrStored ==
  [][Listed => /\ prog = "money" => SortedStable(out'.val.shown, Transactions)
               /\ prog = "simple" => out'.val.shown = Transactions
               /\ data' = data /\ file' = file]_vars

\* money.py listed a ledger whose stored order is not its date order.
C8_Witness ==
  /\ prog = "money" /\ out.op = "list_transactions"
  /\ Len(Transactions) = 2
  /\ out.val.shown # Transactions
  /\ StrLess(out.val.shown[1].date, out.val.shown[2].date)

UploadErrors == {"CSV does not have the required columns.", "Error reading file"}

\* C9: an upload is taken as the transaction set only when the file has all
\* five columns; otherwise an error is shown and the session's transactions
\* and starting balance stay as they were.
C9_UploadNeedsAllColumns ==
  [][(prog = "pp" /\ out'.op = "upload") =>
       IF AcceptedFile(uploaded_file')
       THEN /\ Transactions' = uploaded_file'.rows
            /\ out'.msgs \cap UploadErrors = {}
       ELSE /\ out'.msgs \cap UploadErrors # {}
            /\ "Transactions loaded successfully!" \notin out'.msgs
            /\ session_state' = session_state]_vars

\* A CSV without its Note column was refused over two entries and a set balance.
C9_Witness ==
  /\ prog = "pp" /\ out.op = "upload"
  /\ uploaded_file = F_NoNote
  /\ "CSV does not have the required columns." \in out.msgs
  /\ Len(Transactions) = 2
  /\ session_state.starting_balance = 100

\* The file holds exactly the ledger d.
FileHolds(f, d) ==
  /\ f.state = "text" /\ f.doc.kind = "object"
  /\ d.pytype = "dict"
  /\ json_load(f.doc) = d.val

ReadOps == {"show_balance", "list_transactions", "monthly_summary", "show_history"}

\* C10: after every successful mutation the file holds exactly the ledger in
\* memory, and the read-only operations never write the file.
C10_FileHoldsLedger ==
  [][(pc = "menu" /\ prog \in {"money", "simple"}) =>
       /\ ( \/ data' # data
            \/ out'.op = "set_starting_balance"
            \/ (out'.op \in AddOps /\ out'.val.amount > 0 /\ pc' = "menu") )
          => (out'.saved /\ FileHolds(file', data'))
       /\ out'.op \in ReadOps => (file' = file /\ data' = data /\ ~out'.saved)]_vars

\* A second transaction was appended and saved over a set starting balance.
C10_Witness ==
  /\ prog = "money" /\ out.op = "add_expense" /\ out.saved
  /\ StartingBalance = 100
  /\ Len(Transactions) = 2
  /\ FileHolds(file, data)

\* Runs of pp.py after which an added entry need not be there any more: Reset
\* All Data was pressed, or a file was picked in the uploader.
ClearingOps == {"reset", "upload"}

\* C11: in pp.py an entry added through the form stays in the transaction set
\* on every later run of the script until Reset All Data is pressed or a file
\* is picked: every other run keeps all rows it found, entries included, also
\* while an accepted CSV is still selected in the uploader.
C11_AddedEntriesStay ==
  [][(prog = "pp" /\ pc = "menu" /\ out'.op \notin ClearingOps) =>
       IsPrefix(Transactions, Transactions')]_vars

====
